---- MODULE Spec2Model ----
(***************************************************************************)
(* RGrep: the pattern parser (src/parser.rs), the matching engine          *)
(* (src/engine.rs) and the command-line pipeline that runs them            *)
(* (src/main.rs).                                                          *)
(*                                                                         *)
(* A character is a one-character string, a pattern string or an input     *)
(* line is a sequence of characters, a pattern node (enum RE) is a record  *)
(* with a "kind" field.  parse, _parse, _post_process, match_pattern,      *)
(* _match_pattern and the single-character tests are pure functions and    *)
(* are operators here; main is the state machine that applies them.        *)
(***************************************************************************)
EXTENDS Integers, Sequences, FiniteSets, TLC

VARIABLES pattern, overflow_checks, input_chars, pc, flat, regex, result, exit_code

vars == <<pattern, overflow_checks, input_chars, pc, flat, regex, result, exit_code>>

(***************************************************************************)
(* Bounds of the model.                                                    *)
(***************************************************************************)
\* longest pattern, counted in fragments (see the fragment sets below)
MaxFrags == 3
\* longest input line
MaxInput == 4
\* longest member list of a character class, counted in fragments
MaxMembers == 2
\* longest pattern of the syntax runs, in characters
MaxSyntax == 4
\* longest input line of the syntax and character-class runs
MaxShortInput == 2
\* number of nested _match_pattern frames the thread's stack holds
StackLimit == 16

(***************************************************************************)
(* Slices.                                                                 *)
(***************************************************************************)
\* &s[n..] (n counted from 0)
DropFirst(s, n) == SubSeq(s, n + 1, Len(s))

\* &s[..n]
TakeFirst(s, n) == SubSeq(s, 1, n)

\* position (from 1) of the first occurrence of c in s, 0 when there is none
RECURSIVE IndexOf(_, _, _)
IndexOf(s, c, from) ==
    IF from > Len(s) THEN 0
    ELSE IF s[from] = c THEN from
    ELSE IndexOf(s, c, from + 1)

\* slice::splitn(2, |x| x == c): the part before the first c, and the part
\* after it when there is a c
SplitN2(s, c) ==
    LET i == IndexOf(s, c, 1) IN
    IF i = 0 THEN [first |-> s, has_rest |-> FALSE, rest |-> <<>>]
    ELSE [first |-> TakeFirst(s, i - 1), has_rest |-> TRUE, rest |-> DropFirst(s, i)]

\* slice::split(|x| x == c): the parts between the occurrences of c
RECURSIVE Split(_, _)
Split(s, c) ==
    LET i == IndexOf(s, c, 1) IN
    IF i = 0 THEN <<s>>
    ELSE <<TakeFirst(s, i - 1)>> \o Split(DropFirst(s, i), c)

(***************************************************************************)
(* enum RE.                                                                *)
(***************************************************************************)
\* Option::None for a quantifier's target
None == [kind |-> "None"]

Character(c) == [kind |-> "Character", character |-> c]
CClass(members) == [kind |-> "CClass", members |-> members]
NCClass(members) == [kind |-> "NCClass", members |-> members]
DigitClass == [kind |-> "DigitClass"]
AlphanumericClass == [kind |-> "AlphanumericClass"]
Wildcard == [kind |-> "Wildcard"]
StartAnchor == [kind |-> "StartAnchor"]
EndAnchor == [kind |-> "EndAnchor"]
OneOrMore(target) == [kind |-> "OneOrMore", target |-> target]
ZeroOrMore(target) == [kind |-> "ZeroOrMore", target |-> target]
ZeroOrOne(target) == [kind |-> "ZeroOrOne", target |-> target]
Alternation(members) == [kind |-> "Alternation", members |-> members]
BackReference(target) == [kind |-> "BackReference", target |-> target]

Quantifiers == {"OneOrMore", "ZeroOrMore", "ZeroOrOne"}

\* matches!(v, RE::OneOrMore{..} | RE::ZeroOrMore{..} | RE::ZeroOrOne{..})
IsQuantifier(re) == re.kind \in Quantifiers

(***************************************************************************)
(* char::is_ascii_digit, char::to_digit(10), char::is_ascii_alphanumeric.  *)
(***************************************************************************)
AsciiDigits == <<"0", "1", "2", "3", "4", "5", "6", "7", "8", "9">>

IsAsciiDigit(c) == \E i \in 1..Len(AsciiDigits) : AsciiDigits[i] = c

ToDigit(c) == (CHOOSE i \in 1..Len(AsciiDigits) : AsciiDigits[i] = c) - 1

AsciiLetters ==
    {"a", "b", "c", "d", "e", "f", "g", "h", "i", "j", "k", "l", "m",
     "n", "o", "p", "q", "r", "s", "t", "u", "v", "w", "x", "y", "z",
     "A", "B", "C", "D", "E", "F", "G", "H", "I", "J", "K", "L", "M",
     "N", "O", "P", "Q", "R", "S", "T", "U", "V", "W", "X", "Y", "Z"}

IsAsciiAlphanumeric(c) == IsAsciiDigit(c) \/ c \in AsciiLetters

(***************************************************************************)
(* Result<Vec<RE>>, and the third outcome of a call: a panic.              *)
(***************************************************************************)
ParseOk(re) == [kind |-> "Ok", regex |-> re, msg |-> ""]
ParseErr(msg) == [kind |-> "Err", regex |-> <<>>, msg |-> msg]
ParsePanic(msg) == [kind |-> "Panic", regex |-> <<>>, msg |-> msg]

(***************************************************************************)
(* parser.rs: _parse.  `regex` is the vector the caller passes in; the     *)
(* result holds the vector after the pushes.                               *)
(***************************************************************************)
RECURSIVE _parse(_, _)
RECURSIVE ParseMembers(_, _)

\* the closure of `.map(...)` at lines 69-75 over the alternation parts, in
\* order: each member is parsed into a vector of its own, and an Err is
\* turned into a panic by `.expect`
ParseMembers(parts, i) ==
    IF i > Len(parts) THEN ParseOk(<<>>)
    ELSE LET m == _parse(parts[i], <<>>) IN
         IF m.kind = "Err" THEN ParsePanic("unable to parse alternation member")
         ELSE IF m.kind = "Panic" THEN m
         ELSE LET more == ParseMembers(parts, i + 1) IN
              IF more.kind # "Ok" THEN more
              ELSE ParseOk(<<m.regex>> \o more.regex)

_parse(characters, re) ==
    IF characters = <<>> THEN ParseOk(re)
    ELSE LET c == characters[1] IN
    CASE c = "(" ->
           LET parts == SplitN2(DropFirst(characters, 1), ")")
               members == ParseMembers(Split(parts.first, "|"), 1)
           IN  IF members.kind # "Ok" THEN members
               ELSE _parse(IF parts.has_rest THEN parts.rest ELSE <<>>,
                           Append(re, Alternation(members.regex)))
      [] c = "\\" ->
           IF Len(characters) < 2
             THEN ParseErr("Missing special character class specifier")
           ELSE IF characters[2] = "d"
             THEN _parse(DropFirst(characters, 2), Append(re, DigitClass))
           ELSE IF characters[2] = "w"
             THEN _parse(DropFirst(characters, 2), Append(re, AlphanumericClass))
           ELSE IF IsAsciiDigit(characters[2])
             THEN _parse(DropFirst(characters, 2),
                         Append(re, BackReference(ToDigit(characters[2]))))
           ELSE ParseErr("Unsupported special character class")
      [] c = "[" ->
           LET negated == Len(characters) >= 2 /\ characters[2] = "^"
               counter == IF negated THEN 2 ELSE 1
               parts == SplitN2(DropFirst(characters, counter), "]")
               cls == _parse(parts.first, <<>>)
           IN  IF cls.kind # "Ok" THEN cls
               ELSE _parse(IF parts.has_rest THEN parts.rest ELSE <<>>,
                           Append(re, IF negated THEN NCClass(cls.regex)
                                                 ELSE CClass(cls.regex)))
      [] c = "$" ->
           IF Len(characters) >= 2
             THEN ParseErr("Invalid pattern: $ should only appear as the last character")
             ELSE ParseOk(Append(re, EndAnchor))
      [] c = "+" -> _parse(DropFirst(characters, 1), Append(re, OneOrMore(None)))
      [] c = "*" -> _parse(DropFirst(characters, 1), Append(re, ZeroOrMore(None)))
      [] c = "?" -> _parse(DropFirst(characters, 1), Append(re, ZeroOrOne(None)))
      [] c = "." -> _parse(DropFirst(characters, 1), Append(re, Wildcard))
      [] OTHER -> _parse(DropFirst(characters, 1), Append(re, Character(c)))

(***************************************************************************)
(* parser.rs: _post_process.                                               *)
(***************************************************************************)
\* members.iter().any(|v| matches!(v, quantifier))
AnyQuantifier(members) == \E k \in 1..Len(members) : IsQuantifier(members[k])

\* the quantifier of the kind of `variant`, bound to new_target (lines 192-203)
Bind(variant, new_target) ==
    CASE variant.kind = "OneOrMore" -> OneOrMore(new_target)
      [] variant.kind = "ZeroOrMore" -> ZeroOrMore(new_target)
      [] variant.kind = "ZeroOrOne" -> ZeroOrOne(new_target)

RECURSIVE _post_process(_)
RECURSIVE PostProcessMembers(_, _)
RECURSIVE PostProcessFrom(_, _, _)

\* the loop over the members of an Alternation (lines 180-183)
PostProcessMembers(members, j) ==
    IF j > Len(members) THEN ParseOk(<<>>)
    ELSE LET m == _post_process(members[j]) IN
         IF m.kind # "Ok" THEN m
         ELSE LET more == PostProcessMembers(members, j + 1) IN
              IF more.kind # "Ok" THEN more
              ELSE ParseOk(<<m.regex>> \o more.regex)

\* the body of `for i in 0..regex.len()`, from index i (from 1) with
\* new_regex as built so far
PostProcessFrom(re, i, new_regex) ==
    IF i > Len(re) THEN ParseOk(new_regex)
    ELSE IF re[i].kind = "Alternation" THEN
         LET ms == PostProcessMembers(re[i].members, 1) IN
         IF ms.kind # "Ok" THEN ms
         ELSE PostProcessFrom(re, i + 1, Append(new_regex, Alternation(ms.regex)))
    ELSE IF i + 1 <= Len(re) /\ IsQuantifier(re[i + 1]) THEN
         PostProcessFrom(re, i + 1, Append(new_regex, Bind(re[i + 1], re[i])))
    ELSE IF IsQuantifier(re[i]) THEN
         PostProcessFrom(re, i + 1, new_regex)
    ELSE IF re[i].kind \in {"CClass", "NCClass"} THEN
         IF AnyQuantifier(re[i].members)
           THEN ParseErr("character class cannot contain +")
           ELSE PostProcessFrom(re, i + 1, Append(new_regex, re[i]))
    ELSE PostProcessFrom(re, i + 1, Append(new_regex, re[i]))

_post_process(re) == PostProcessFrom(re, 1, <<>>)

(***************************************************************************)
(* parser.rs: parse.  `characters[0]` panics on the empty pattern string.  *)
(***************************************************************************)
\* lines 45-53: the anchor check and the call of _parse
ParseFlat(regex_string) ==
    IF regex_string = <<>>
      THEN ParsePanic("index out of bounds: the len is 0 but the index is 0")
    ELSE IF regex_string[1] = "^"
      THEN _parse(DropFirst(regex_string, 1), <<StartAnchor>>)
      ELSE _parse(regex_string, <<>>)

parse(regex_string) ==
    LET f == ParseFlat(regex_string) IN
    IF f.kind # "Ok" THEN f ELSE _post_process(f.regex)

(***************************************************************************)
(* engine.rs.  A call of the engine ends in one of three ways: Ok, Err, or *)
(* an abort of the process (a panic, or the stack overflow of a recursion  *)
(* that does not end).  `refs` is the capture vector the returning frame   *)
(* owns; the program drops it, it is kept here to state what a frame saw.  *)
(*                                                                         *)
(* rt is what the build and the thread fix: rt.depth, the number of        *)
(* _match_pattern frames the stack still holds, and rt.overflow_checks,    *)
(* whether integer overflow panics (debug profile) or wraps (release).     *)
(***************************************************************************)
MOk(len, refs) == [kind |-> "Ok", len |-> len, refs |-> refs, msg |-> ""]
MErr(msg) == [kind |-> "Err", len |-> 0, refs |-> <<>>, msg |-> msg]
MAbort(msg) == [kind |-> "Abort", len |-> 0, refs |-> <<>>, msg |-> msg]

\* Result<bool>
BOk(b) == [kind |-> "Ok", b |-> b, msg |-> ""]
BErr(msg) == [kind |-> "Err", b |-> FALSE, msg |-> msg]
BAbort(msg) == [kind |-> "Abort", b |-> FALSE, msg |-> msg]

Deeper(rt) == [rt EXCEPT !.depth = @ - 1]

\* Literals, were the captured string spliced as nodes that match any character
LiteralsAsWildcards(matched_string) ==
    [k \in 1..Len(matched_string) |-> Wildcard]

\* matched_string.chars().map(|ch| RE::Character { character: ch }).collect()
Literals(matched_string) ==
    [k \in 1..Len(matched_string) |-> Character(matched_string[k])]

\* AfterClone, were the callee handed the caller's vector itself
AfterShared(back_references, callee_refs) == callee_refs

\* the caller's back_references after a call that was handed
\* back_references.clone(): the callee pushed to its own copy
AfterClone(back_references, callee_refs) == back_references

_match_character(input_character, re_char) == input_character = re_char

_match_digit_class(input_character) == IsAsciiDigit(input_character)

_match_alphanumeric_class(input_character) == IsAsciiAlphanumeric(input_character)

RECURSIVE _match_pattern(_, _, _, _, _)
RECURSIVE AlternationFrom(_, _, _, _, _, _)
RECURSIVE AlternationFromEnd(_, _, _, _, _, _)
RECURSIVE OneOrMoreCount(_, _, _, _)
RECURSIVE match_single_character(_, _, _)
RECURSIVE ClassFrom(_, _, _, _)

\* the loop of _match_character_class from member i
ClassFrom(input_character, character_class, i, rt) ==
    IF i > Len(character_class) THEN BOk(FALSE)
    ELSE LET r == _match_pattern(<<input_character>>, <<character_class[i]>>,
                                 0, <<>>, Deeper(rt)) IN
         IF r.kind = "Abort" THEN BAbort(r.msg)
         ELSE IF r.kind = "Err" THEN BErr(r.msg)
         ELSE IF r.len = 1 THEN BOk(TRUE)
         ELSE ClassFrom(input_character, character_class, i + 1, rt)

_match_character_class(input_character, character_class, rt) ==
    ClassFrom(input_character, character_class, 1, rt)

\* match_single_character, were the NCClass arm to lose its negation
match_single_character_unnegated(c, re_element, rt) ==
    CASE re_element.kind = "Wildcard" -> BOk(TRUE)
      [] re_element.kind = "Character" ->
           BOk(_match_character(c, re_element.character))
      [] re_element.kind = "DigitClass" -> BOk(_match_digit_class(c))
      [] re_element.kind = "AlphanumericClass" ->
           BOk(_match_alphanumeric_class(c))
      [] re_element.kind \in {"CClass", "NCClass"} ->
           _match_character_class(c, re_element.members, rt)
      [] OTHER -> BOk(FALSE)

match_single_character(c, re_element, rt) ==
    CASE re_element.kind = "Wildcard" -> BOk(TRUE)
      [] re_element.kind = "Character" ->
           BOk(_match_character(c, re_element.character))
      [] re_element.kind = "DigitClass" -> BOk(_match_digit_class(c))
      [] re_element.kind = "AlphanumericClass" ->
           BOk(_match_alphanumeric_class(c))
      [] re_element.kind = "CClass" ->
           _match_character_class(c, re_element.members, rt)
      [] re_element.kind = "NCClass" ->
           LET r == _match_character_class(c, re_element.members, rt) IN
           IF r.kind = "Ok" THEN BOk(~r.b) ELSE r
      [] OTHER -> BOk(FALSE)

\* the loop of the OneOrMore arm (lines 83-92): the value of `counter` at
\* the break, or an abort of the single-character test
OneOrMoreCount(input_characters, atom, counter, rt) ==
    IF counter >= Len(input_characters) THEN MOk(counter, <<>>)
    ELSE LET t == match_single_character(input_characters[counter + 1], atom, rt) IN
         IF t.kind = "Abort" THEN MAbort(t.msg)
         ELSE IF t.kind = "Ok" /\ ~t.b THEN MOk(counter, <<>>)
         ELSE OneOrMoreCount(input_characters, atom, counter + 1, rt)

\* AlternationFrom, were the members tried from the last one
AlternationFromEnd(input_characters, pat, current_match_len, back_references, j, rt) ==
    IF j > Len(pat[1].members) THEN MOk(0, back_references)
    ELSE LET r == _match_pattern(input_characters,
                                 pat[1].members[Len(pat[1].members) + 1 - j], 0,
                                 back_references, Deeper(rt))
         IN  IF r.kind = "Abort" THEN r
             ELSE IF r.kind = "Ok" /\ r.len > 0 THEN
                  _match_pattern(DropFirst(input_characters, r.len), Tail(pat),
                                 current_match_len + r.len,
                                 Append(back_references,
                                        TakeFirst(input_characters, r.len)),
                                 Deeper(rt))
             ELSE AlternationFromEnd(input_characters, pat, current_match_len,
                                     back_references, j + 1, rt)

\* the loop of the Alternation arm (lines 62-77) from member j
AlternationFrom(input_characters, pat, current_match_len, back_references, j, rt) ==
    IF j > Len(pat[1].members) THEN MOk(0, back_references)
    ELSE LET r == _match_pattern(input_characters, pat[1].members[j], 0,
                                 back_references, Deeper(rt))
             own == AfterClone(back_references, r.refs)
         IN  IF r.kind = "Abort" THEN r
             ELSE IF r.kind = "Ok" /\ r.len > 0 THEN
                  IF r.len > Len(input_characters)
                    THEN MAbort("range end index out of range for slice")
                    ELSE _match_pattern(DropFirst(input_characters, r.len),
                                        Tail(pat),
                                        current_match_len + r.len,
                                        Append(own, TakeFirst(input_characters, r.len)),
                                        Deeper(rt))
             ELSE AlternationFrom(input_characters, pat, current_match_len,
                                  own, j + 1, rt)

_match_pattern(input_characters, pat, current_match_len, back_references, rt) ==
    IF rt.depth = 0 THEN MAbort("stack overflow")
    ELSE IF pat = <<>> THEN MOk(current_match_len, back_references)
    ELSE IF input_characters = <<>> THEN
         IF pat[1].kind = "EndAnchor"
           THEN MOk(current_match_len, back_references)
           ELSE MOk(0, back_references)
    ELSE LET c == input_characters[1]
             re == pat[1]
             quantified == re.kind \in Quantifiers /\ re.target # None
    IN
    CASE re.kind = "BackReference" ->
           IF re.target = 0 THEN
                \* (*target - 1) as usize, with target: u32
                IF rt.overflow_checks
                  THEN MAbort("attempt to subtract with overflow")
                  ELSE MErr("Back reference does not exist")
           ELSE IF re.target <= Len(back_references) THEN
                _match_pattern(input_characters,
                               Literals(back_references[re.target]) \o Tail(pat),
                               current_match_len, back_references, Deeper(rt))
           ELSE MErr("Back reference does not exist")
      [] re.kind = "Alternation" ->
           AlternationFrom(input_characters, pat, current_match_len,
                           back_references, 1, rt)
      [] re.kind = "OneOrMore" /\ quantified ->
           LET first == match_single_character(c, re.target, rt) IN
           IF first.kind = "Abort" THEN MAbort(first.msg)
           ELSE IF first.kind = "Ok" /\ first.b THEN
                LET n == OneOrMoreCount(input_characters, re.target, 1, rt) IN
                IF n.kind = "Abort" THEN n
                ELSE _match_pattern(DropFirst(input_characters, n.len), Tail(pat),
                                    current_match_len + n.len, back_references,
                                    Deeper(rt))
           ELSE MOk(0, back_references)
      [] re.kind = "ZeroOrMore" /\ quantified ->
           LET trial == _match_pattern(input_characters, Tail(pat), 0,
                                       back_references, Deeper(rt))
               own == AfterClone(back_references, trial.refs)
           IN  IF trial.kind = "Abort" THEN trial
               ELSE IF trial.kind = "Ok" THEN
                    IF trial.len > 0 THEN MOk(current_match_len + trial.len, own)
                    ELSE LET t == match_single_character(c, re.target, rt) IN
                         IF t.kind = "Abort" THEN MAbort(t.msg)
                         ELSE IF t.kind = "Ok" /\ t.b THEN
                              _match_pattern(input_characters, pat,
                                             current_match_len + 1, own, Deeper(rt))
                         ELSE MOk(0, own)
               ELSE MOk(0, own)
      [] re.kind = "ZeroOrOne" /\ quantified ->
           LET trial == _match_pattern(input_characters, Tail(pat), 0,
                                       back_references, Deeper(rt))
               own == AfterClone(back_references, trial.refs)
           IN  IF trial.kind = "Abort" THEN trial
               ELSE IF trial.kind = "Ok" THEN
                    IF trial.len > 0 THEN MOk(current_match_len + trial.len, own)
                    ELSE LET t == match_single_character(c, re.target, rt) IN
                         IF t.kind = "Abort" THEN MAbort(t.msg)
                         ELSE IF t.kind = "Ok" /\ t.b THEN
                              _match_pattern(DropFirst(input_characters, 1), Tail(pat),
                                             current_match_len + 1, own, Deeper(rt))
                         ELSE MOk(0, own)
               ELSE MOk(0, own)
      [] OTHER ->
           LET t == match_single_character(c, re, rt) IN
           IF t.kind = "Abort" THEN MAbort(t.msg)
           ELSE IF t.kind = "Ok" /\ t.b THEN
                _match_pattern(DropFirst(input_characters, 1), Tail(pat),
                               current_match_len + 1, back_references, Deeper(rt))
           ELSE MOk(0, back_references)

\* the stack of a fresh thread and the build profile
Runtime(checks) == [depth |-> StackLimit, overflow_checks |-> checks]

\* the loop of match_pattern (lines 10-22) from start offset `counter`
RECURSIVE SearchFrom(_, _, _, _)
SearchFrom(input_characters, pat, counter, rt) ==
    LET r == _match_pattern(DropFirst(input_characters, counter), pat, 0, <<>>, rt) IN
    IF r.kind = "Abort" THEN r
    ELSE IF r.kind = "Ok" /\ r.len > 0 THEN r
    ELSE IF counter + 1 >= Len(input_characters) THEN MOk(0, <<>>)
    ELSE SearchFrom(input_characters, pat, counter + 1, rt)

match_pattern(input_characters, pat, rt) ==
    IF pat = <<>>
      THEN MAbort("index out of bounds: the len is 0 but the index is 0")
    ELSE IF pat[1].kind = "StartAnchor"
      THEN _match_pattern(input_characters, Tail(pat), 0, <<>>, rt)
      ELSE SearchFrom(input_characters, pat, 0, rt)

(***************************************************************************)
(* main.rs: the pipeline.  The pattern is the second command-line          *)
(* argument, the input is the line read from standard input once the       *)
(* pattern has parsed.                                                     *)
(***************************************************************************)
NoParse == [kind |-> "None", regex |-> <<>>, msg |-> ""]
NoMatch == [kind |-> "None", len |-> 0, refs |-> <<>>, msg |-> ""]

\* the exit status of a process that panicked, or overflowed its stack
AbortStatus(msg) == IF msg = "stack overflow" THEN 134 ELSE 101

\* lines 19-20: parse(&pattern); a pattern that does not parse exits 1
Parse ==
    /\ pc = "parse"
    /\ flat' = ParseFlat(pattern)
    /\ regex' = parse(pattern)
    /\ pc' = IF regex'.kind = "Ok" THEN "match" ELSE "exit"
    /\ exit_code' = CASE regex'.kind = "Ok" -> exit_code
                      [] regex'.kind = "Err" -> 1
                      [] regex'.kind = "Panic" -> AbortStatus(regex'.msg)
    /\ UNCHANGED <<pattern, overflow_checks, input_chars, result>>

\* lines 23-35: read the line, strip the newline, match_pattern, exit
Match(line) ==
    /\ pc = "match"
    /\ input_chars' = line
    /\ result' = match_pattern(line, regex.regex, Runtime(overflow_checks))
    /\ pc' = "exit"
    /\ exit_code' = CASE result'.kind = "Abort" -> AbortStatus(result'.msg)
                      [] result'.kind = "Ok" /\ result'.len > 0 -> 0
                      [] OTHER -> 1
    /\ UNCHANGED <<pattern, overflow_checks, flat, regex>>

(***************************************************************************)
(* The pattern strings and input lines the model runs on.  A pattern is a  *)
(* concatenation of fragments, each a piece of pattern syntax.             *)
(***************************************************************************)
RECURSIVE Flatten(_)
Flatten(ss) == IF ss = <<>> THEN <<>> ELSE Head(ss) \o Flatten(Tail(ss))

SeqsUpTo(S, n) == UNION {[1..k -> S] : k \in 0..n}

PatternsOver(fragments, n) == {Flatten(fs) : fs \in SeqsUpTo(fragments, n)}

\* every character the parser dispatches on, and a literal
SyntaxFragments ==
    {<<"a">>, <<"+">>, <<"*">>, <<"?">>, <<"(">>, <<"|">>, <<")">>,
     <<"[">>, <<"]">>, <<"\\">>, <<"0">>, <<"$">>, <<"^">>}

\* literals and the three quantifiers
QuantifierFragments == {<<"a">>, <<"b">>, <<"*">>, <<"?">>, <<"+">>}

\* groups, a backreference, an anchor
GroupFragments ==
    {<<"^">>, <<"a", "?">>, <<"(", "a", "|", "a", "b", ")">>,
     <<"(", "a", "b", "|", "a", ")">>, <<"\\", "1">>, <<"b">>}

\* the members of a character class: the leaf nodes
MemberFragments == {<<"a">>, <<"b">>, <<".">>, <<"\\", "d">>, <<"\\", "w">>}

\* a class, negated or not, alone or under a quantifier
ClassPatterns ==
    {open \o members \o <<"]">> \o quantifier :
        open \in {<<"[">>, <<"[", "^">>},
        members \in PatternsOver(MemberFragments, MaxMembers),
        quantifier \in {<<>>, <<"+">>, <<"?">>}}

Lines(chars, n) == SeqsUpTo(chars, n)

InitOn(patterns) ==
    /\ pattern \in patterns
    /\ overflow_checks \in BOOLEAN
    /\ input_chars = <<>>
    /\ pc = "parse"
    /\ flat = NoParse
    /\ regex = NoParse
    /\ result = NoMatch
    /\ exit_code = -1

\* any pattern syntax, short lines
Init == InitOn(PatternsOver(SyntaxFragments, MaxSyntax))

Next ==
    \/ Parse
    \/ \E line \in Lines({"a"}, MaxShortInput) : Match(line)

Spec == Init /\ [][Next]_vars

\* quantified literals
InitQuantifiers == InitOn(PatternsOver(QuantifierFragments, MaxFrags))

NextLetters ==
    \/ Parse
    \/ \E line \in Lines({"a", "b"}, MaxInput) : Match(line)

SpecQuantifiers == InitQuantifiers /\ [][NextLetters]_vars

\* groups and backreferences
InitGroups == InitOn(PatternsOver(GroupFragments, MaxFrags))

SpecGroups == InitGroups /\ [][NextLetters]_vars

\* character classes
InitClasses == InitOn(ClassPatterns)

NextClasses ==
    \/ Parse
    \/ \E line \in Lines({"a", "1", "-"}, MaxShortInput) : Match(line)

SpecClasses == InitClasses /\ [][NextClasses]_vars

(***************************************************************************)
(* Properties.                                                             *)
(***************************************************************************)
\* the run reached match_pattern and it ended
Matched == pc = "exit" /\ result.kind # "None"

\* the parser ran
Parsed == pc # "parse"

Rt == Runtime(overflow_checks)

Min(S) == CHOOSE x \in S : \A y \in S : x <= y

\* the pattern the anchored routine is given, and the start offsets it is
\* given it at
Anchored == regex.regex # <<>> /\ regex.regex[1].kind = "StartAnchor"

Body == IF Anchored THEN Tail(regex.regex) ELSE regex.regex

Offsets ==
    IF Anchored \/ input_chars = <<>> THEN {0} ELSE 0..(Len(input_chars) - 1)

\* the anchored routine at start offset k, with an empty capture list
Attempt(k) == _match_pattern(DropFirst(input_chars, k), Body, 0, <<>>, Rt)

Positive(r) == r.kind = "Ok" /\ r.len > 0

\* the start offsets whose attempt returns a positive length
PositiveOffsets == {k \in Offsets : Positive(Attempt(k))}

\* the single-character test holds
Satisfies(c, re) ==
    LET t == match_single_character(c, re, Rt) IN t.kind = "Ok" /\ t.b

\* C1: every match attempt runs to completion: match_pattern never ends by
\* exhausting the stack in a recursion that makes no progress (the retry of
\* a ZeroOrMore node is made on a shortened input).
C1_AttemptsTerminate == Matched => result.msg # "stack overflow"

\* C2: no failure mode is a crash: parse returns a node sequence or an
\* error value, and match_pattern returns a length or an error value.
C2_NoCrash == regex.kind # "Panic" /\ result.kind # "Abort"

\* C3: for a pattern with no StartAnchor, match_pattern returns the length
\* of the attempt at the smallest start offset whose attempt returns a
\* positive length, and 0 when no offset does.
C3_FirstPositiveOffset ==
    Matched /\ regex.regex # <<>> /\ ~Anchored =>
        /\ result.kind = "Ok"
        /\ result.len = IF PositiveOffsets = {} THEN 0
                        ELSE Attempt(Min(PositiveOffsets)).len

\* the pattern after a quantified node matches at the current position
RestMatches(s, rest) ==
    \/ rest = <<>>
    \/ Positive(_match_pattern(s, rest, 0, <<>>, Rt))

\* C5: when an attempt reaches a ZeroOrMore or ZeroOrOne node (here after
\* one literal it has consumed) and the pattern after the node matches at
\* the current position, the remainder being empty or the input exhausted
\* included, the attempt succeeds.
C5_EmptyCaseAccepted ==
    Matched /\ ~Anchored /\ Len(regex.regex) >= 2 =>
        \A k \in Offsets :
            LET s == DropFirst(input_chars, k)
                lit == regex.regex[1]
                node == regex.regex[2]
            IN  /\ lit.kind = "Character"
                /\ node.kind \in {"ZeroOrMore", "ZeroOrOne"}
                /\ s # <<>> /\ s[1] = lit.character
                /\ RestMatches(Tail(s), DropFirst(regex.regex, 2))
                => Attempt(k).kind = "Abort" \/ Positive(Attempt(k))

\* C8: a pattern string whose first character is a quantifier is a parse
\* error.
C8_LeadingQuantifierRejected ==
    Parsed /\ pattern # <<>> /\ pattern[1] \in {"+", "*", "?"} =>
        regex.kind = "Err"

\* the node the claim expects for node `re` followed by placeholder `q`
BoundTo(node, q, re) ==
    /\ node.kind = q.kind
    /\ \/ node.target = re
       \/ re.kind = "Alternation" /\ node.target.kind = "Alternation"

\* C10: post-processing binds every quantifier placeholder to the node
\* before it, whatever its kind: the output holds a quantifier of the
\* placeholder's kind whose target is a copy of that node.
C10_QuantifierBound ==
    Parsed /\ flat.kind = "Ok" /\ regex.kind = "Ok" =>
        \A i \in 1..(Len(flat.regex) - 1) :
            IsQuantifier(flat.regex[i + 1]) /\ ~IsQuantifier(flat.regex[i]) =>
                \E j \in 1..Len(regex.regex) :
                    BoundTo(regex.regex[j], flat.regex[i + 1], flat.regex[i])

(***************************************************************************)
(* Every way of matching a pattern at the start of an input, whichever     *)
(* alternative and repetition count is taken: the set of consumed lengths. *)
(***************************************************************************)
\* the longest run of leading characters that satisfy `re`
RunLength(inp, re) ==
    Min({k \in 0..Len(inp) : k = Len(inp) \/ ~Satisfies(inp[k + 1], re)})

IsPrefix(p, inp) == Len(p) <= Len(inp) /\ TakeFirst(inp, Len(p)) = p

RECURSIVE Ways(_, _, _)
Ways(inp, pat, refs) ==
    IF pat = <<>> THEN {0}
    ELSE LET re == pat[1]
             After(n, refs2) ==
                 {n + m : m \in Ways(DropFirst(inp, n), Tail(pat), refs2)}
             Repeat(least, most) ==
                 UNION {After(n, refs) : n \in least..most}
    IN
    CASE re.kind = "EndAnchor" ->
           IF inp = <<>> THEN Ways(inp, Tail(pat), refs) ELSE {}
      [] re.kind = "BackReference" ->
           IF re.target \in 1..Len(refs) /\ IsPrefix(refs[re.target], inp)
             THEN After(Len(refs[re.target]), refs)
             ELSE {}
      [] re.kind = "Alternation" ->
           UNION {After(n, Append(refs, TakeFirst(inp, n))) :
                    n \in UNION {Ways(inp, re.members[j], refs) \ {0} :
                                   j \in 1..Len(re.members)}}
      [] re.kind = "OneOrMore" -> Repeat(1, RunLength(inp, re.target))
      [] re.kind = "ZeroOrMore" -> Repeat(0, RunLength(inp, re.target))
      [] re.kind = "ZeroOrOne" ->
           Repeat(0, IF RunLength(inp, re.target) >= 1 THEN 1 ELSE 0)
      [] OTHER ->
           IF inp # <<>> /\ Satisfies(inp[1], re) THEN After(1, refs) ELSE {}

\* the start offset of the match that match_pattern reported
ReportedOffset == IF Anchored THEN 0 ELSE Min(PositiveOffsets)

\* C4 as stated: the length returned for a start position is the length of
\* the longest match there: no other Group alternative or repetition count
\* consumes more characters.
C4_LongestMatch ==
    Matched /\ Positive(result) =>
        \A n \in Ways(DropFirst(input_chars, ReportedOffset), Body, <<>>) :
            n <= result.len

\* the attempt on input s of the members of the Group that heads `pat`
MemberAttempt(s, pat, j) == _match_pattern(s, pat[1].members[j], 0, <<>>, Rt)

MatchingMembers(s, pat) ==
    {j \in 1..Len(pat[1].members) : Positive(MemberAttempt(s, pat, j))}

\* C4, amended: the length returned for a start position is the length of
\* the first match in the engine's fixed order, not of the longest.  At a
\* Group the engine takes the first alternative, in declaration order, that
\* matches a non-empty prefix, and returns the length of the match that
\* continues from it (0 when no alternative matches); at a ZeroOrMore or
\* ZeroOrOne node it takes zero repetitions whenever the rest of the pattern
\* matches with non-zero length.  A later alternative or a larger repetition
\* count may consume more.
C4_FirstWayTaken ==
    Matched /\ Body # <<>> =>
        \A k \in Offsets :
            LET s == DropFirst(input_chars, k)
                got == IF Anchored THEN result ELSE Attempt(k)
                J == MatchingMembers(s, Body)
                m == MemberAttempt(s, Body, Min(J)).len
                continued == _match_pattern(DropFirst(s, m), Tail(Body), m,
                                            <<TakeFirst(s, m)>>, Rt)
                skipped == _match_pattern(s, Tail(Body), 0, <<>>, Rt)
            IN  /\ Body[1].kind = "Alternation" /\ s # <<>> =>
                    \/ got.kind = "Abort"
                    \/ /\ J = {}
                       /\ got.kind = "Ok" /\ got.len = 0
                    \/ /\ J # {}
                       /\ got.kind = continued.kind /\ got.len = continued.len
                /\ Body[1].kind \in {"ZeroOrMore", "ZeroOrOne"} /\ s # <<>>
                   /\ Positive(skipped) =>
                    got.kind = "Ok" /\ got.len = skipped.len

\* a Group whose first alternative matches and whose second alternative
\* would have consumed more is matched with the first
C4_Witness ==
    /\ Matched /\ Anchored
    /\ Len(Body) = 1 /\ Body[1].kind = "Alternation"
    /\ Len(Body[1].members) = 2
    /\ Positive(MemberAttempt(input_chars, Body, 1))
    /\ Positive(MemberAttempt(input_chars, Body, 2))
    /\ MemberAttempt(input_chars, Body, 2).len > MemberAttempt(input_chars, Body, 1).len
    /\ result.len = MemberAttempt(input_chars, Body, 1).len

\* C6: a Group followed by BackReference 1, matched from a fixed start
\* offset: when the Group matches the non-empty S and the input there goes
\* on with S again, the attempt consumes 2 * Len(S) characters; when it
\* goes on with a different string of the same length, the attempt returns 0.
C6_BackReferenceRoundTrip ==
    Matched /\ Len(Body) = 2 /\ Body[1].kind = "Alternation"
            /\ Body[2] = BackReference(1) =>
        \A k \in Offsets :
            LET s == DropFirst(input_chars, k)
                got == IF Anchored THEN result ELSE Attempt(k)
                group == _match_pattern(s, <<Body[1]>>, 0, <<>>, Rt)
                n == group.len
                S == TakeFirst(s, n)
                again == SubSeq(s, n + 1, 2 * n)
            IN  Positive(group) /\ Len(s) >= 2 * n =>
                    /\ got.kind = "Ok"
                    /\ got.len = IF again = S THEN 2 * n ELSE 0

\* a two-character capture that is repeated, matched from offset 0
C6_Witness ==
    /\ Matched /\ Anchored
    /\ Len(Body) = 2 /\ Body[1].kind = "Alternation" /\ Body[2] = BackReference(1)
    /\ input_chars = <<"a", "b", "a", "b">>
    /\ result.kind = "Ok" /\ result.len = 4
    /\ result.refs = <<(<<"a", "b">>)>>

Leaves == {"Character", "Wildcard", "DigitClass", "AlphanumericClass"}

\* the characters the single-character tests are compared on
TestChars == {"a", "b", "1", "-"}

\* the class node of a pattern that is one class, alone or under a quantifier
ClassNode == IF IsQuantifier(Body[1]) THEN Body[1].target ELSE Body[1]

\* C7: over a member list of leaf nodes, the empty list included, the
\* single-character test of CClass holds of a character exactly when that
\* of NCClass does not; and a pattern that is the class alone matches a
\* one-character line exactly when the test holds.
C7_ClassComplement ==
    Matched /\ Len(Body) = 1 /\ ClassNode.kind \in {"CClass", "NCClass"}
            /\ (\A i \in 1..Len(ClassNode.members) :
                    ClassNode.members[i].kind \in Leaves) =>
        /\ \A c \in TestChars :
             LET pos == match_single_character(c, CClass(ClassNode.members), Rt)
                 neg == match_single_character(c, NCClass(ClassNode.members), Rt)
             IN  pos.kind = "Ok" /\ neg.kind = "Ok" /\ (pos.b <=> ~neg.b)
        /\ Len(input_chars) = 1 /\ ~IsQuantifier(Body[1]) =>
             (Positive(result) <=> Satisfies(input_chars[1], ClassNode))

\* a negated class with members matched a character its members do not
C7_Witness ==
    /\ Matched /\ Len(Body) = 1 /\ Body[1].kind = "NCClass"
    /\ Len(Body[1].members) = 2
    /\ Len(input_chars) = 1
    /\ ~Satisfies(input_chars[1], CClass(Body[1].members))
    /\ Positive(result)

NumGroups(pat) == Cardinality({i \in 1..Len(pat) : pat[i].kind = "Alternation"})

\* the skip-first trial of the ZeroOrOne node that heads Body, on input s
SkipTrial(s) == _match_pattern(s, Tail(Body), 0, <<>>, Rt)

\* the ZeroOrOne node that heads Body consumes the first character of s
\* after a skip-first trial that failed
TrialFailedThenConsumed(s) ==
    /\ s # <<>> /\ Body # <<>>
    /\ Body[1].kind = "ZeroOrOne" /\ Body[1].target # None
    /\ SkipTrial(s).kind = "Ok" /\ SkipTrial(s).len = 0
    /\ Satisfies(s[1], Body[1].target)

\* C9: capture lists are isolated between attempts: what a failed skip-first
\* trial or a failed start offset captured is not seen by what runs after it.
\* The continuation after a failed trial ends as it does when started from
\* the captures held before the trial; the attempt reported by the driver
\* is the attempt started with an empty list; and no attempt ends holding
\* more captures than the pattern has Groups.
C9_CapturesIsolated ==
    Matched =>
        /\ \A k \in Offsets :
             LET s == DropFirst(input_chars, k)
                 got == IF Anchored THEN result ELSE Attempt(k)
             IN  /\ Len(got.refs) <= NumGroups(Body)
                 /\ TrialFailedThenConsumed(s) =>
                      got = _match_pattern(Tail(s), Tail(Body), 1, <<>>, Rt)
        /\ Positive(result) => result = Attempt(ReportedOffset)

\* a skip-first trial captured and failed, and the continuation matched
C9_Witness ==
    /\ Matched /\ ~Anchored /\ Positive(result)
    /\ LET s == DropFirst(input_chars, ReportedOffset)
       IN  /\ TrialFailedThenConsumed(s)
           /\ SkipTrial(s).refs # <<>>
           /\ Len(result.refs) = 1

====
